---- MODULE Spec2Model ----
(***************************************************************************)
(* In-memory document store (src/config/memoryDb.js), the backend          *)
(* selector connectDB (src/config/db.js) and the mock Event model with its *)
(* controllers (src/controllers/eventController.js).                       *)
(*                                                                         *)
(* JavaScript values are tagged records [t |-> type, v |-> payload]; a     *)
(* stored document is a function from field names to tagged values.        *)
(* The clock is counted in milliseconds since process start.               *)
(***************************************************************************)
EXTENDS Integers, Sequences, FiniteSets, TLC

VARIABLES
  env,            \* startup configuration: env.nodeEnv, process.env.MONGO_URI
  usingMemoryDb,  \* exported flag of db.js
  memoryDb,       \* the collections of memoryDb.js
  now,            \* the clock read by Date.now() and new Date()
  dbPc,           \* connectDB: the branch it took and the await it is at
  pend,           \* the suspended Event.findOneAndUpdate call, if any
  issued,         \* per collection, the _ids create has returned so far
  fresh,          \* per collection and position, whether the record is still
                  \* as create returned it (neither updated nor deleted)
  rank,           \* per collection and position, the place of the record
                  \* among the records of the collection in insertion order
  last            \* the last completed operation and its outcome

vars ==
  <<env, usingMemoryDb, memoryDb, now, dbPc, pend, issued, fresh, rank, last>>

-----------------------------------------------------------------------------
(* Bounds *)
MaxClock == 1       \* the clock stops advancing here
MaxRecords == 2     \* records held by all collections together
MaxLen == 2         \* records of the events collection a query is run on
MaxEvents == 2      \* events held while the controllers run

-----------------------------------------------------------------------------
(* JavaScript values *)
Str(s) == [t |-> "string", v |-> s]
Num(n) == [t |-> "number", v |-> n]
DateV(n) == [t |-> "date", v |-> n]
Obj(o) == [t |-> "object", v |-> o]
Arr(a) == [t |-> "array", v |-> a]
Undef == [t |-> "undefined", v |-> "undefined"]
Null == [t |-> "null", v |-> "null"]

\* a === b: primitives compare by value, objects and dates by reference, and
\* no stored value is ever the same object as a caller's filter value
StrictEq(a, b) ==
  /\ a.t = b.t
  /\ a.t \in {"string", "number", "undefined", "null"}
  /\ a.v = b.v

\* the two values are the same value of the same type
SameValue(a, b) == a.t = b.t /\ a.v = b.v

\* !x for the values a query can be
Falsy(x) == x.t \in {"undefined", "null"}

\* item[key]
Get(item, key) == IF key \in DOMAIN item THEN item[key] ELSE Undef

\* { ...a, ...b }
Spread(a, b) ==
  [k \in DOMAIN a \cup DOMAIN b |-> IF k \in DOMAIN b THEN b[k] ELSE a[k]]

Digit(d) ==
  CASE d = 0 -> "0" [] d = 1 -> "1" [] d = 2 -> "2" [] d = 3 -> "3"
    [] d = 4 -> "4" [] d = 5 -> "5" [] d = 6 -> "6" [] d = 7 -> "7"
    [] d = 8 -> "8" [] d = 9 -> "9"

RECURSIVE toString(_)
\* Number.prototype.toString of a non-negative integer
toString(n) == IF n < 10 THEN Digit(n) ELSE toString(n \div 10) \o Digit(n % 10)

-----------------------------------------------------------------------------
(* memoryDb.js *)
CollectionNames ==
  {"events", "users", "registrations", "reviews", "sessions", "feedbacks",
   "notifications", "exhibitors"}

\* memoryDb[collection] || []
Items(db, collection) ==
  IF collection \in DOMAIN db THEN db[collection] ELSE <<>>

\* items.findIndex(item => item._id === id), 1-based, 0 for -1
FindIndex(items, id) ==
  IF \E i \in 1..Len(items) : StrictEq(Get(items[i], "_id"), id)
  THEN CHOOSE i \in 1..Len(items) :
         /\ StrictEq(Get(items[i], "_id"), id)
         /\ \A j \in 1..(i - 1) : ~StrictEq(Get(items[j], "_id"), id)
  ELSE 0

getAll(db, collection) == Arr(Items(db, collection))

findById(db, collection, id) ==
  LET items == Items(db, collection)
      i == FindIndex(items, id)
  IN IF i = 0 THEN Null ELSE Obj(items[i])

\* Object.keys(condition).every(condKey => item[condKey] === condition[condKey])
ConditionHolds(item, condition) ==
  \A condKey \in DOMAIN condition.v :
    StrictEq(Get(item, condKey), condition.v[condKey])

\* KeyHolds with every in place of some for the sub-filters of $or
KeyHolds_EveryOr(item, query, key) ==
  IF key = "$or"
  THEN \A n \in 1..Len(query.v[key].v) :
         ConditionHolds(item, query.v[key].v[n])
  ELSE StrictEq(Get(item, key), query.v[key])

\* the callback of Object.keys(query).every in find
KeyHolds(item, query, key) ==
  IF key = "$or"
  THEN \E n \in 1..Len(query.v[key].v) :
         ConditionHolds(item, query.v[key].v[n])
  ELSE StrictEq(Get(item, key), query.v[key])

QueryHolds(item, query) ==
  \A key \in DOMAIN query.v : KeyHolds(item, query, key)

find(db, collection, query) ==
  LET items == Items(db, collection)
  IN IF Falsy(query) \/ DOMAIN query.v = {}
     THEN Arr(items)
     ELSE Arr(SelectSeq(items, LAMBDA item : QueryHolds(item, query)))

\* the record create builds; t0, t1, t2 are its three clock readings
NewItem(data, t0, t1, t2) ==
  Spread(Spread([_id |-> Str(toString(t0))], data),
         [createdAt |-> DateV(t1), updatedAt |-> DateV(t2)])

\* memoryDb after create
created_db(db, collection, item) ==
  [c \in DOMAIN db \cup {collection} |->
     IF c = collection THEN Append(Items(db, collection), item) ELSE db[c]]

\* items[index] = { ...items[index], ...data, updatedAt: new Date() }
UpdatedItem(item, data, t) ==
  Spread(Spread(item, data), [updatedAt |-> DateV(t)])

update_ret(db, collection, id, data, t) ==
  LET items == Items(db, collection)
      index == FindIndex(items, id)
  IN IF index # 0 THEN Obj(UpdatedItem(items[index], data, t)) ELSE Null

\* an update that adds the record when no record has the id
update_db_Upsert(db, collection, id, data, t) ==
  LET items == Items(db, collection)
      index == FindIndex(items, id)
  IN IF index # 0
     THEN [db EXCEPT ![collection] =
             [items EXCEPT ![index] = UpdatedItem(items[index], data, t)]]
     ELSE [db EXCEPT ![collection] =
             Append(items, UpdatedItem([_id |-> id], data, t))]

update_db(db, collection, id, data, t) ==
  LET items == Items(db, collection)
      index == FindIndex(items, id)
  IN IF index # 0
     THEN [db EXCEPT ![collection] =
             [items EXCEPT ![index] = UpdatedItem(items[index], data, t)]]
     ELSE db

delete_ret(db, collection, id) ==
  LET items == Items(db, collection)
      index == FindIndex(items, id)
  IN IF index # 0 THEN Obj(items[index]) ELSE Null

\* items.splice(index, 1)
delete_db(db, collection, id) ==
  LET items == Items(db, collection)
      index == FindIndex(items, id)
  IN IF index # 0
     THEN [db EXCEPT ![collection] =
             SubSeq(items, 1, index - 1) \o SubSeq(items, index + 1, Len(items))]
     ELSE db

-----------------------------------------------------------------------------
(* Inputs *)
WeekMs == 604800000   \* 7 * 24 * 60 * 60 * 1000

\* the collections the operations are called on; "archive" is not a
\* collection of memoryDb until its first write
Collections == {"events", "archive"}

Users == {Str("u1"), Str("u2")}

\* the identifiers callers ask for
IdSet == {Str(toString(t)) : t \in 0..MaxClock}

\* the data mappings handed to create
DataSet ==
  { [title |-> Str("Music Festival"), status |-> Str("approved"),
     organizer |-> Str("u1"), date |-> DateV(1)],
    [title |-> Str("Tech Talk"), status |-> Str("pending"),
     organizer |-> Str("u2"), date |-> DateV(3)] }

\* the data mappings handed to update
UpdateSet ==
  { [status |-> Str("approved")], [title |-> Str("Tech Talk")] }

\* the two sample events of connectDB, built at clock reading t
SampleEvent1(t) ==
  [title |-> Str("Tech Conference 2025"),
   description |-> Str("Annual technology conference with industry leaders"),
   date |-> DateV(t + WeekMs),
   location |-> Str("Convention Center"),
   price |-> Num(9999),            \* 99.99, in hundredths
   organizer |-> Str("Organizer Inc."),
   status |-> Str("approved")]

SampleEvent2(t) ==
  [title |-> Str("Music Festival"),
   description |-> Str("Three-day music festival with top artists"),
   date |-> DateV(t + 2 * WeekMs),
   location |-> Str("Central Park"),
   price |-> Num(14999),           \* 149.99, in hundredths
   organizer |-> Str("Festival Corp"),
   status |-> Str("approved")]

\* key :> value added to the object literal m when cond holds
Put(cond, m, key, value) == IF cond THEN Spread(m, key :> value) ELSE m

\* the truthiness test of if (x) and x || y
Truthy(x) ==
  /\ x.t \notin {"undefined", "null"}
  /\ x.t = "string" => x.v # ""
  /\ x.t = "number" => x.v # 0

\* the queries handed to memoryDbUtils.find
QuerySet ==
  { Undef, Null, Obj(<<>>),
    Obj([status |-> Str("approved")]),
    Obj([status |-> Str("approved"), organizer |-> Str("u1")]),
    Obj([category |-> Str("music")]),
    Obj([price |-> Num(9999)]),
    Obj("$or" :> Arr(<<>>)),
    Obj("$or" :> Arr(<<Obj([status |-> Str("pending")]),
                       Obj([organizer |-> Str("u1")])>>)),
    Obj(("$or" :> Arr(<<Obj([status |-> Str("pending"), organizer |-> Str("u2")]),
                        Obj([title |-> Str("Music Festival")])>>))
        @@ [status |-> Str("approved")]),
    Obj([event |-> Str("0"), status |-> Obj("$ne" :> Str("cancelled"))]),
    Obj([status |-> Obj("$ne" :> Str("pending"))]),
    Obj([date |-> Obj(("$gte" :> DateV(1)) @@ ("$lte" :> DateV(WeekMs)))]) }

\* req.query of listEvents: the search term, the status and the two dates
\* (given as instants)
SearchTerms == {Undef, Str("music"), Str("TECH")}
StatusTerms == {Undef, Str("approved"), Str("pending")}
DateTerms == {Undef, Num(2), Num(WeekMs)}

\* req.body of createEvent and of updateEvent, req.file.filename
CreateBodies == { [title |-> Str("Tech Talk"), status |-> Str("pending")] }
UpdateBodies == { [status |-> Str("cancelled")] }
FileNames == {Undef, Str("poster.png")}

\* the readings of the clock one create can take: Date.now(), new Date(),
\* new Date(), with at most one tick in between
Readings(t) ==
  { r \in {<<t, t, t>>, <<t, t, t + 1>>, <<t, t + 1, t + 1>>} : r[3] <= MaxClock }

TotalRecords(db) ==
  LET names == DOMAIN db
      RECURSIVE Sum(_)
      Sum(S) == IF S = {} THEN 0
                ELSE LET c == CHOOSE c \in S : TRUE
                     IN Len(db[c]) + Sum(S \ {c})
  IN Sum(names)

CanCreate == TotalRecords(memoryDb) < MaxRecords

\* what an operation leaves in last
Outcome(op, collection, id, arg, ret) ==
  [op |-> op, coll |-> collection, id |-> id, arg |-> arg, ret |-> ret,
   threw |-> FALSE, status |-> 0]

\* what a controller leaves in last: the response status and body
Response(op, id, arg, status, body) ==
  [op |-> op, coll |-> "events", id |-> id, arg |-> arg, ret |-> body,
   threw |-> FALSE, status |-> status]

-----------------------------------------------------------------------------
(* State after the modules are loaded *)
InitEnv(configs) ==
  /\ env \in configs
  /\ usingMemoryDb = (env.nodeEnv = "development" /\ ~env.mongoUriSet)
  /\ memoryDb = [c \in CollectionNames |-> <<>>]
  /\ now = 0
  /\ dbPc = [branch |-> "none", at |-> "init"]
  /\ pend = [pc |-> "idle"]
  /\ issued = [c \in CollectionNames \cup Collections |-> {}]
  /\ fresh = [c \in CollectionNames \cup Collections |-> <<>>]
  /\ rank = [c \in CollectionNames \cup Collections |-> <<>>]
  /\ last = Outcome("none", "-", Undef, Undef, Undef)

\* time passes between operations
Tick ==
  /\ now < MaxClock
  /\ now' = now + 1
  /\ UNCHANGED <<env, usingMemoryDb, memoryDb, dbPc, pend, issued, fresh, rank, last>>

\* the places left when the record at position index is removed
RankRemove(r, index) ==
  [j \in 1..(Len(r) - 1) |->
     LET x == r[IF j < index THEN j ELSE j + 1]
     IN IF x > r[index] THEN x - 1 ELSE x]

\* the effect of one memoryDbUtils.create call
DoCreate(collection, data, r) ==
  LET item == NewItem(data, r[1], r[2], r[3])
  IN /\ memoryDb' = created_db(memoryDb, collection, item)
     /\ issued' = [issued EXCEPT ![collection] = @ \cup {Get(item, "_id")}]
     /\ fresh' = [fresh EXCEPT ![collection] = Append(@, TRUE)]
     /\ rank' = [rank EXCEPT ![collection] = Append(@, Len(@) + 1)]
     /\ now' = r[3]

\* the effect of one memoryDbUtils.update call at clock reading t
DoUpdate(collection, id, data, t) ==
  LET index == FindIndex(Items(memoryDb, collection), id)
  IN /\ memoryDb' = update_db(memoryDb, collection, id, data, t)
     /\ fresh' = IF index # 0
                 THEN [fresh EXCEPT ![collection] = [@ EXCEPT ![index] = FALSE]]
                 ELSE fresh
     /\ UNCHANGED rank
     /\ now' = t

\* the effect of one memoryDbUtils.delete call
DoDelete(collection, id) ==
  LET index == FindIndex(Items(memoryDb, collection), id)
  IN /\ memoryDb' = delete_db(memoryDb, collection, id)
     /\ fresh' = IF index # 0
                 THEN [fresh EXCEPT ![collection] =
                         SubSeq(@, 1, index - 1) \o SubSeq(@, index + 1, Len(@))]
                 ELSE fresh
     /\ rank' = IF index # 0
                THEN [rank EXCEPT ![collection] = RankRemove(@, index)]
                ELSE rank

(* memoryDbUtils called directly *)
Create(collection, data) ==
  /\ CanCreate
  /\ \E r \in Readings(now) :
       /\ DoCreate(collection, data, r)
       /\ last' = Outcome("create", collection, Undef, Obj(data),
                          Obj(NewItem(data, r[1], r[2], r[3])))
  /\ UNCHANGED <<env, usingMemoryDb, dbPc, pend>>

Update(collection, id, data) ==
  /\ \E t \in {now, now + 1} :
       /\ t <= MaxClock
       /\ DoUpdate(collection, id, data, t)
       /\ last' = Outcome("update", collection, id, Obj(data),
                          update_ret(memoryDb, collection, id, data, t))
  /\ UNCHANGED <<env, usingMemoryDb, dbPc, pend, issued>>

Delete(collection, id) ==
  /\ DoDelete(collection, id)
  /\ last' = Outcome("delete", collection, id, Undef,
                     delete_ret(memoryDb, collection, id))
  /\ UNCHANGED <<env, usingMemoryDb, now, dbPc, pend, issued>>

FindById(collection, id) ==
  /\ last' = Outcome("findById", collection, id, Undef,
                     findById(memoryDb, collection, id))
  /\ UNCHANGED <<env, usingMemoryDb, memoryDb, now, dbPc, pend, issued, fresh, rank>>

GetAll(collection) ==
  /\ last' = Outcome("getAll", collection, Undef, Undef,
                     getAll(memoryDb, collection))
  /\ UNCHANGED <<env, usingMemoryDb, memoryDb, now, dbPc, pend, issued, fresh, rank>>

StoreNext ==
  \/ Tick
  \/ \E c \in Collections, data \in DataSet : Create(c, data)
  \/ \E c \in Collections, id \in IdSet, data \in UpdateSet : Update(c, id, data)
  \/ \E c \in Collections, id \in IdSet : Delete(c, id)
  \/ \E c \in Collections, id \in IdSet : FindById(c, id)
  \/ \E c \in Collections : GetAll(c)

Next == StoreNext

-----------------------------------------------------------------------------
(* Queries: memoryDbUtils.find and the mock Event.find, which change no state *)

\* new Date(x) of an instant
NewDate(x) == DateV(x.v)

\* the filter listEvents builds from req.query
ListFilter(q, category, status, organizer, dateFrom, dateTo) ==
  LET regex == Obj(("$regex" :> q) @@ ("$options" :> Str("i")))
      f1 == Put(Truthy(q), <<>>, "$or",
                Arr(<<Obj([title |-> regex]), Obj([description |-> regex])>>))
      f2 == Put(Truthy(category), f1, "category", category)
      f3 == Put(Truthy(status), f2, "status", status)
      f4 == Put(Truthy(organizer), f3, "organizer", organizer)
      d1 == Put(Truthy(dateFrom), <<>>, "$gte", NewDate(dateFrom))
      d2 == Put(Truthy(dateTo), d1, "$lte", NewDate(dateTo))
  IN Obj(Put(Truthy(dateFrom) \/ Truthy(dateTo), f4, "date", Obj(d2)))

\* the query the mock Event.find builds from its filter
EventFindQuery(filter) ==
  LET or == Get(filter.v, "$or")
      date == Get(filter.v, "date")
      gte == IF date.t = "object" THEN Get(date.v, "$gte") ELSE Undef
      lte == IF date.t = "object" THEN Get(date.v, "$lte") ELSE Undef
      q1 == Put(Truthy(or), <<>>, "$or", or)
      d1 == Put(Truthy(gte), <<>>, "$gte", gte)
      d2 == Put(Truthy(lte), d1, "$lte", lte)
  IN Obj(Put(Truthy(date) /\ (Truthy(gte) \/ Truthy(lte)), q1, "date", Obj(d2)))

\* the mock Event.find called without options, as listEvents calls it
EventFindResult(db, filter) == find(db, "events", EventFindQuery(filter))

Find(collection, query) ==
  /\ last' = Outcome("find", collection, Undef, query,
                     find(memoryDb, collection, query))
  /\ UNCHANGED <<env, usingMemoryDb, memoryDb, now, dbPc, pend, issued, fresh, rank>>

Event_find(filter) ==
  /\ usingMemoryDb
  /\ last' = Outcome("Event.find", "events", Undef, filter,
                     EventFindResult(memoryDb, filter))
  /\ UNCHANGED <<env, usingMemoryDb, memoryDb, now, dbPc, pend, issued, fresh, rank>>

\* the mock Event.countDocuments: memoryDbUtils.find on the filter as given
EventCountResult(db, filter) == Num(Len(find(db, "events", filter).v))

Event_countDocuments(filter) ==
  /\ usingMemoryDb
  /\ last' = Outcome("Event.countDocuments", "events", Undef, filter,
                     EventCountResult(memoryDb, filter))
  /\ UNCHANGED <<env, usingMemoryDb, memoryDb, now, dbPc, pend, issued, fresh, rank>>

FindNext ==
  \/ \E c \in Collections, query \in QuerySet : Find(c, query)
  \/ \E q \in SearchTerms, status \in StatusTerms, dateFrom, dateTo \in DateTerms :
       Event_find(ListFilter(q, Undef, status, Undef, dateFrom, dateTo))
  \/ \E q \in SearchTerms, status \in StatusTerms :
       Event_countDocuments(ListFilter(q, Undef, status, Undef, Undef, Undef))

\* the records a collection can hold
RecordSet ==
  { NewItem(data, t, t, t) : data \in DataSet, t \in 0..MaxClock }
    \cup { NewItem(SampleEvent1(0), 0, 0, 0), NewItem(SampleEvent2(0), 0, 0, 0) }

SeqsUpTo(S, n) == UNION { [1..k -> S] : k \in 0..n }

\* the memory path with any content of the events collection
InitFind ==
  /\ env = [nodeEnv |-> "development", mongoUriSet |-> FALSE]
  /\ usingMemoryDb = TRUE
  /\ \E events \in SeqsUpTo(RecordSet, MaxLen) :
       /\ memoryDb = [c \in CollectionNames |->
                        IF c = "events" THEN events ELSE <<>>]
       /\ issued = [c \in CollectionNames \cup Collections |->
                      IF c = "events"
                      THEN { events[i]._id : i \in 1..Len(events) } ELSE {}]
       /\ fresh = [c \in CollectionNames \cup Collections |->
                     IF c = "events" THEN [i \in 1..Len(events) |-> TRUE]
                     ELSE <<>>]
       /\ rank = [c \in CollectionNames \cup Collections |->
                    IF c = "events" THEN [i \in 1..Len(events) |-> i]
                    ELSE <<>>]
  /\ now = MaxClock
  /\ dbPc = [branch |-> "memory", at |-> "resolved"]
  /\ pend = [pc |-> "idle"]
  /\ last = Outcome("none", "-", Undef, Undef, Undef)

\* every startup configuration
Init == InitEnv([nodeEnv : {"development", "production"}, mongoUriSet : BOOLEAN])

\* development without MONGO_URI
InitDev == InitEnv({[nodeEnv |-> "development", mongoUriSet |-> FALSE]})

\* the store under direct calls of memoryDbUtils
Spec == InitDev /\ [][Next]_vars

\* queries on every content of the events collection
FindSpec == InitFind /\ [][FindNext]_vars

-----------------------------------------------------------------------------
(* db.js: connectDB *)

\* the keys of the memoryDbUtils object
MemoryDbUtilsKeys == {"getAll", "findById", "find", "create", "update", "delete"}

\* memoryDb after "Clear existing data": the assignment runs only when
\* memoryDbUtils.memoryDb is defined
ClearEvents(db) ==
  IF "memoryDb" \in MemoryDbUtilsKeys THEN [db EXCEPT !["events"] = <<>>] ELSE db

\* the call runs to the first await of the in-memory branch
ConnectDB_Memory ==
  /\ dbPc.at = "init" /\ usingMemoryDb
  /\ \E r \in Readings(now) : DoCreate("events", SampleEvent1(now), r)
  /\ dbPc' = [branch |-> "memory", at |-> "seed2"]
  /\ UNCHANGED <<env, usingMemoryDb, pend, last>>

Memory_Seed2 ==
  /\ dbPc = [branch |-> "memory", at |-> "seed2"]
  /\ \E r \in Readings(now) : DoCreate("events", SampleEvent2(now), r)
  /\ dbPc' = [dbPc EXCEPT !.at = "seeded"]
  /\ UNCHANGED <<env, usingMemoryDb, pend, last>>

Memory_Return ==
  /\ dbPc = [branch |-> "memory", at |-> "seeded"]
  /\ dbPc' = [dbPc EXCEPT !.at = "resolved"]
  /\ UNCHANGED <<env, usingMemoryDb, memoryDb, now, pend, issued, fresh, rank, last>>

\* the call runs to await import('mongoose')
ConnectDB_Mongo ==
  /\ dbPc.at = "init" /\ ~usingMemoryDb
  /\ dbPc' = [branch |-> "mongo", at |-> "importing"]
  /\ UNCHANGED <<env, usingMemoryDb, memoryDb, now, pend, issued, fresh, rank, last>>

\* the driver loads and mongoose.connect is awaited, or the import rejects
\* outside the try block
Mongoose_Imported(ok) ==
  /\ dbPc = [branch |-> "mongo", at |-> "importing"]
  /\ dbPc' = [dbPc EXCEPT !.at = IF ok THEN "connecting" ELSE "rejected"]
  /\ UNCHANGED <<env, usingMemoryDb, memoryDb, now, pend, issued, fresh, rank, last>>

\* a connectDB whose catch block would switch the exported flag to the
\* in-memory backend
Mongoose_Connected_SwitchFlag(ok) ==
  /\ dbPc = [branch |-> "mongo", at |-> "connecting"]
  /\ dbPc' = IF ~ok THEN [branch |-> "fallback", at |-> "importMemoryDb"]
             ELSE IF env.nodeEnv = "development"
                  THEN [branch |-> "mongo", at |-> "importMemoryDb"]
                  ELSE [branch |-> "mongo", at |-> "resolved"]
  /\ usingMemoryDb' = (usingMemoryDb \/ ~ok)
  /\ UNCHANGED <<env, memoryDb, now, pend, issued, fresh, rank, last>>

\* mongoose.connect resolves (the try block goes on) or rejects (the catch
\* block runs); either way memoryDb.js is imported next in development, and
\* always in the catch block
Mongoose_Connected(ok) ==
  /\ dbPc = [branch |-> "mongo", at |-> "connecting"]
  /\ dbPc' = IF ~ok THEN [branch |-> "fallback", at |-> "importMemoryDb"]
             ELSE IF env.nodeEnv = "development"
                  THEN [branch |-> "mongo", at |-> "importMemoryDb"]
                  ELSE [branch |-> "mongo", at |-> "resolved"]
  /\ UNCHANGED <<env, usingMemoryDb, memoryDb, now, pend, issued, fresh, rank, last>>

\* memoryDb.js is imported: clear, then create the first sample event
Seed_First ==
  /\ dbPc.at = "importMemoryDb"
  /\ \E r \in Readings(now) :
       LET item == NewItem(SampleEvent1(now), r[1], r[2], r[3])
           cleared == ClearEvents(memoryDb)
       IN /\ memoryDb' = created_db(cleared, "events", item)
          /\ issued' = [issued EXCEPT !["events"] = @ \cup {Get(item, "_id")}]
          /\ fresh' = [fresh EXCEPT !["events"] =
                         Append(SubSeq(@, 1, Len(cleared["events"])), TRUE)]
          /\ rank' = [rank EXCEPT !["events"] =
                        Append(SubSeq(@, 1, Len(cleared["events"])),
                               Len(cleared["events"]) + 1)]
          /\ now' = r[3]
  /\ dbPc' = [dbPc EXCEPT !.at = "seed2"]
  /\ UNCHANGED <<env, usingMemoryDb, pend, last>>

Seed_Second ==
  /\ dbPc.at = "seed2" /\ dbPc.branch \in {"mongo", "fallback"}
  /\ \E r \in Readings(now) : DoCreate("events", SampleEvent2(now), r)
  /\ dbPc' = [dbPc EXCEPT !.at = "verify"]
  /\ UNCHANGED <<env, usingMemoryDb, pend, last>>

\* memoryDbUtils.find('events', {}) for the log
Seed_Verify ==
  /\ dbPc.at = "verify"
  /\ find(memoryDb, "events", Obj(<<>>)).t = "array"
  /\ dbPc' = [dbPc EXCEPT !.at = "verified"]
  /\ UNCHANGED <<env, usingMemoryDb, memoryDb, now, pend, issued, fresh, rank, last>>

Seed_Return ==
  /\ dbPc.at = "verified"
  /\ dbPc' = [dbPc EXCEPT !.at = "resolved"]
  /\ UNCHANGED <<env, usingMemoryDb, memoryDb, now, pend, issued, fresh, rank, last>>

ConnectNext ==
  \/ ConnectDB_Memory
  \/ Memory_Seed2
  \/ Memory_Return
  \/ ConnectDB_Mongo
  \/ \E ok \in BOOLEAN : Mongoose_Imported(ok)
  \/ \E ok \in BOOLEAN : Mongoose_Connected(ok)
  \/ Seed_First
  \/ Seed_Second
  \/ Seed_Verify
  \/ Seed_Return

\* startup under every configuration, with store calls on the events
\* collection running before, during and after it
BootNext ==
  \/ Tick
  \/ ConnectNext
  \/ \E id \in IdSet : Delete("events", id)
  \/ \E id \in IdSet : FindById("events", id)

BootSpec == Init /\ [][BootNext]_vars

-----------------------------------------------------------------------------
(* eventController.js on the in-memory path: the mock Event and the handlers *)

\* requests are handled once startup has finished and Event is the mock
Serving == usingMemoryDb /\ dbPc.at = "resolved"

\* `/uploads/${req.file.filename}` or undefined
PosterUrl(file) == IF Truthy(file) THEN Str("/uploads/" \o file.v) ELSE Undef

\* createEvent: Event.create({ ...req.body, organizer: req.user.id, posterUrl })
CreateEvent(body, user, file) ==
  /\ Serving
  /\ Len(memoryDb["events"]) < MaxEvents
  /\ LET data == Spread(body, [organizer |-> user, posterUrl |-> PosterUrl(file)])
     IN \E r \in Readings(now) :
          /\ DoCreate("events", data, r)
          /\ last' = Response("createEvent", Undef, user, 201,
                              Obj([event |-> Obj(NewItem(data, r[1], r[2], r[3]))]))
  /\ UNCHANGED <<env, usingMemoryDb, dbPc, pend>>

\* updateEvent up to the await in Event.findOneAndUpdate: the update is
\* built and memoryDbUtils.findById has run
UpdateEvent_Call(id, user, body, file) ==
  /\ Serving
  /\ pend.pc = "idle"
  /\ pend' = [pc |-> "found", id |-> id, user |-> user,
              update |-> Put(Truthy(PosterUrl(file)), body, "posterUrl", PosterUrl(file)),
              item |-> findById(memoryDb, "events", id)]
  /\ UNCHANGED <<env, usingMemoryDb, memoryDb, now, dbPc, issued, fresh, rank, last>>

\* Event.findOneAndUpdate resumes: memoryDbUtils.update when an item was
\* found, null otherwise; updateEvent answers 404 or the event
UpdateEvent_Resume ==
  /\ pend.pc = "found"
  /\ pend' = [pc |-> "idle"]
  /\ IF Truthy(pend.item)
     THEN \E t \in {now, now + 1} :
            /\ t <= MaxClock
            /\ DoUpdate("events", pend.id, pend.update, t)
            /\ LET event == update_ret(memoryDb, "events", pend.id, pend.update, t)
               IN last' = (IF Truthy(event)
                           THEN Response("updateEvent", pend.id, pend.user, 200,
                                         Obj([event |-> event]))
                           ELSE Response("updateEvent", pend.id, pend.user, 404,
                                         Obj([message |-> Str("Event not found")])))
                          @@ [locals |-> [item |-> pend.item]]
     ELSE /\ last' = Response("updateEvent", pend.id, pend.user, 404,
                              Obj([message |-> Str("Event not found")]))
                     @@ [locals |-> [item |-> pend.item]]
          /\ UNCHANGED <<memoryDb, now, fresh, rank>>
  /\ UNCHANGED <<env, usingMemoryDb, dbPc, issued>>

\* deleteEvent: Event.findOneAndDelete calls memoryDbUtils.delete(filter._id)
DeleteEvent(id, user) ==
  /\ Serving
  /\ DoDelete("events", id)
  /\ last' = IF Truthy(delete_ret(memoryDb, "events", id))
             THEN Response("deleteEvent", id, user, 200,
                           Obj([message |-> Str("Deleted")]))
             ELSE Response("deleteEvent", id, user, 404,
                           Obj([message |-> Str("Event not found")]))
  /\ UNCHANGED <<env, usingMemoryDb, now, dbPc, pend, issued>>

ControllerNext ==
  \/ \E body \in CreateBodies, user \in Users, file \in FileNames :
       CreateEvent(body, user, file)
  \/ \E id \in IdSet, user \in Users, body \in UpdateBodies, file \in FileNames :
       UpdateEvent_Call(id, user, body, file)
  \/ UpdateEvent_Resume
  \/ \E id \in IdSet, user \in Users : DeleteEvent(id, user)

AppNext == Tick \/ ConnectNext \/ ControllerNext

\* the process: connectDB at startup and the event handlers
AppSpec == Init /\ [][AppNext]_vars

-----------------------------------------------------------------------------
(* eventController.js: sorted and paginated listings *)

DefaultLimit == 10

Min(a, b) == IF a < b THEN a ELSE b
Max(a, b) == IF a > b THEN a ELSE b

\* a < b for the values the listings are sorted by: Date objects and
\* numbers compare by their numeric value, undefined compares false
Less(a, b) ==
  /\ a.t \in {"number", "date"}
  /\ b.t \in {"number", "date"}
  /\ a.v < b.v

\* the comparator handed to Array.prototype.sort, for sort field f
Compare(a, b, f, desc) ==
  IF Less(Get(a, f), Get(b, f)) THEN (IF desc THEN 1 ELSE -1)
  ELSE IF Less(Get(b, f), Get(a, f)) THEN (IF desc THEN -1 ELSE 1)
  ELSE 0

RECURSIVE SortOrder(_, _, _, _)
\* Array.prototype.sort, which is stable: the positions of the first n items
\* in the order the sort leaves them in
SortOrder(items, f, desc, n) ==
  IF n = 0 THEN <<>>
  ELSE LET s == SortOrder(items, f, desc, n - 1)
           before == SelectSeq(s, LAMBDA q :
                                 Compare(items[q], items[n], f, desc) <= 0)
           after == SelectSeq(s, LAMBDA q :
                                Compare(items[q], items[n], f, desc) > 0)
       IN before \o <<n>> \o after

\* the sequence with its elements moved to the given order of positions
Permute(seq, order) == [i \in 1..Len(order) |-> seq[order[i]]]

\* Array.prototype.slice returning the elements up to but excluding end + 1
Slice_Inclusive(seq, start, end) ==
  LET len == Len(seq)
      k == IF start < 0 THEN Max(len + start, 0) ELSE Min(start, len)
      final == IF end + 1 < 0 THEN Max(len + end + 1, 0) ELSE Min(end + 1, len)
  IN IF final <= k THEN <<>> ELSE SubSeq(seq, k + 1, final)

\* Array.prototype.slice(start, end) with integer arguments
Slice(seq, start, end) ==
  LET len == Len(seq)
      k == IF start < 0 THEN Max(len + start, 0) ELSE Min(start, len)
      final == IF end < 0 THEN Max(len + end, 0) ELSE Min(end, len)
  IN IF final <= k THEN <<>> ELSE SubSeq(seq, k + 1, final)

\* parseInt of a number or of a string that is one decimal digit
ParseInt(x) ==
  IF x.t = "number" THEN x.v
  ELSE CHOOSE n \in 0..9 : Digit(n) = x.v

\* Math.ceil(a / b) for a >= 0 and b > 0
CeilDiv(a, b) == (a + b - 1) \div b

\* memoryDbUtils.find returns the collection's own array for this query
ReturnsItems(query) == Falsy(query) \/ DOMAIN query.v = {}

\* the sort options of Event.find, and the skip and limit pairs
SortOptions ==
  {Undef, Obj([date |-> Num(1)]), Obj([createdAt |-> Num(-1)])}
PageOptions ==
  { <<Undef, Undef>>, <<Num(0), Num(1)>>, <<Num(1), Num(2)>>,
    <<Num(2), Num(0)>> }

\* req.query of listEvents: sortBy with sortOrder, page and limit
SortTerms ==
  { <<Undef, Undef>>, <<Undef, Str("desc")>>, <<Str("createdAt"), Str("desc")>> }
PageTerms == {Undef, Str("2")}
LimitTerms == {Undef, Str("1")}
ListStatusTerms == {Undef, Str("pending")}

\* the places in insertion order of the records find returns for the query
FoundRanks(db, r, query) ==
  LET items == Items(db, "events")
      positions == SelectSeq([i \in 1..Len(items) |-> i],
                             LAMBDA i : ReturnsItems(query)
                                          \/ QueryHolds(items[i], query))
  IN [k \in 1..Len(positions) |-> r["events"][positions[k]]]

\* an in-place sort of the array find returned: when that array is the
\* collection's own, the collection is reordered
SortInPlace(aliased, order) ==
  IF aliased
  THEN /\ memoryDb' = [memoryDb EXCEPT !["events"] = Permute(@, order)]
       /\ fresh' = [fresh EXCEPT !["events"] = Permute(@, order)]
       /\ rank' = [rank EXCEPT !["events"] = Permute(@, order)]
  ELSE UNCHANGED <<memoryDb, fresh, rank>>

\* the mock Event.find(filter, projection, options)
Event_find_options(filter, sort, skip, limit) ==
  /\ usingMemoryDb
  /\ LET query == EventFindQuery(filter)
         found == find(memoryDb, "events", query).v
         sortField == CHOOSE f \in DOMAIN sort.v : TRUE
         desc == StrictEq(sort.v[sortField], Num(-1))
         order == IF Truthy(sort)
                  THEN SortOrder(found, sortField, desc, Len(found))
                  ELSE [i \in 1..Len(found) |-> i]
         events == Permute(found, order)
         paged == IF skip # Undef /\ limit # Undef
                  THEN Slice(events, skip.v, skip.v + limit.v)
                  ELSE events
     IN /\ SortInPlace(ReturnsItems(query), order)
        /\ last' = Outcome("Event.find options", "events", Undef,
                           Obj([filter |-> filter, sort |-> sort,
                                skip |-> skip, limit |-> limit]),
                           Arr(paged))
                   @@ [locals |-> [all |-> events, sorted |-> Truthy(sort),
                                   places |-> Permute(FoundRanks(memoryDb, rank,
                                                                 query), order),
                                   sortField |-> IF Truthy(sort)
                                                 THEN sortField ELSE "",
                                   desc |-> Truthy(sort) /\ desc,
                                   paged |-> skip # Undef /\ limit # Undef,
                                   skip |-> skip.v, limit |-> limit.v]]
  /\ UNCHANGED <<env, usingMemoryDb, now, dbPc, pend, issued>>

\* organizer: { name: event.organizer || 'Organizer' }
WithOrganizer(event) ==
  LET organizer == Get(event, "organizer")
  IN Spread(event,
            [organizer |->
               Obj([name |-> IF Truthy(organizer) THEN organizer
                             ELSE Str("Organizer")])])

\* listEvents on the in-memory path
ListEvents(status, sortByGiven, sortOrder, pageGiven, limitGiven) ==
  /\ Serving
  /\ LET sortBy == IF sortByGiven = Undef THEN Str("date") ELSE sortByGiven
         page == IF pageGiven = Undef THEN Num(1) ELSE pageGiven
         limit == IF limitGiven = Undef THEN Num(DefaultLimit) ELSE limitGiven
         filter == ListFilter(Undef, Undef, status, Undef, Undef, Undef)
         skip == (ParseInt(page) - 1) * ParseInt(limit)
         found == EventFindResult(memoryDb, filter).v
         desc == StrictEq(sortOrder, Str("desc"))
         order == IF Truthy(sortBy)
                  THEN SortOrder(found, sortBy.v, desc, Len(found))
                  ELSE [i \in 1..Len(found) |-> i]
         allEvents == Permute(found, order)
         total == Len(allEvents)
         sliced == Slice(allEvents, skip, skip + ParseInt(limit))
         events == [i \in 1..Len(sliced) |-> Obj(WithOrganizer(sliced[i]))]
         pagination ==
           [currentPage |-> Num(ParseInt(page)),
            totalPages |-> Num(CeilDiv(total, ParseInt(limit))),
            totalEvents |-> Num(total),
            hasNext |-> skip + ParseInt(limit) < total,
            hasPrev |-> ParseInt(page) > 1]
     IN /\ SortInPlace(ReturnsItems(EventFindQuery(filter)), order)
        /\ last' = Response("listEvents", Undef,
                            Obj([status |-> status, sortBy |-> sortByGiven,
                                 sortOrder |-> sortOrder, page |-> pageGiven,
                                 limit |-> limitGiven]),
                            200,
                            Obj([events |-> Arr(events),
                                 pagination |-> pagination]))
                   @@ [locals |-> [all |-> allEvents, sorted |-> Truthy(sortBy),
                                   places |->
                                     Permute(FoundRanks(memoryDb, rank,
                                               EventFindQuery(filter)), order),
                                   sortField |-> sortBy.v, desc |-> desc,
                                   paged |-> TRUE,
                                   skip |-> skip, limit |-> ParseInt(limit)]]
  /\ UNCHANGED <<env, usingMemoryDb, now, dbPc, pend, issued>>

\* the methods of the Promise an async function returns
PromiseMethods == {"then", "catch", "finally"}

\* getEvent on the in-memory path: Event.findById is an async function, and
\* populate is called on what it returns before the await
GetEvent(id) ==
  /\ Serving
  /\ LET event == findById(memoryDb, "events", id)
         filter == Obj([event |-> Get(event.v, "_id"),
                        status |-> Obj("$ne" :> Str("cancelled"))])
         count == Len(find(memoryDb, "registrations", filter).v)
     IN last' =
          IF "populate" \notin PromiseMethods
          THEN [Response("getEvent", id, Undef, 500,
                         Obj([message |->
                                Str("Event.findById(...).populate is not a function")]))
                  EXCEPT !.threw = TRUE]
          ELSE IF Falsy(event)
          THEN Response("getEvent", id, Undef, 404,
                        Obj([message |-> Str("Not found")]))
          ELSE Response("getEvent", id, Undef, 200,
                        Obj([event |-> event, registrations |-> Num(count)]))
  /\ UNCHANGED <<env, usingMemoryDb, memoryDb, now, dbPc, pend, issued, fresh, rank>>

\* the events collection holds records in an order creates can leave
InsertionOrdered(events) ==
  \A i, j \in 1..Len(events) :
    i < j => events[i].createdAt.v <= events[j].createdAt.v

\* the records createEvent-like calls have left in the collection
ListRecords == { NewItem(data, t, t, t) : data \in DataSet, t \in 0..MaxClock }

\* the memory path after startup, the events collection holding records in
\* their insertion order
InitList ==
  /\ env = [nodeEnv |-> "development", mongoUriSet |-> FALSE]
  /\ usingMemoryDb = TRUE
  /\ \E events \in SeqsUpTo(ListRecords, MaxLen) :
       /\ InsertionOrdered(events)
       /\ memoryDb = [c \in CollectionNames |->
                        IF c = "events" THEN events ELSE <<>>]
       /\ issued = [c \in CollectionNames \cup Collections |->
                      IF c = "events"
                      THEN { events[i]._id : i \in 1..Len(events) } ELSE {}]
       /\ fresh = [c \in CollectionNames \cup Collections |->
                     IF c = "events" THEN [i \in 1..Len(events) |-> TRUE]
                     ELSE <<>>]
       /\ rank = [c \in CollectionNames \cup Collections |->
                    IF c = "events" THEN [i \in 1..Len(events) |-> i]
                    ELSE <<>>]
  /\ now = MaxClock
  /\ dbPc = [branch |-> "memory", at |-> "resolved"]
  /\ pend = [pc |-> "idle"]
  /\ last = Outcome("none", "-", Undef, Undef, Undef)

ListNext ==
  \/ \E dateFrom \in {Undef, Num(2)}, sort \in SortOptions, p \in PageOptions :
       Event_find_options(ListFilter(Undef, Undef, Undef, Undef, dateFrom, Undef),
                          sort, p[1], p[2])
  \/ \E status \in ListStatusTerms, sort \in SortTerms,
        page \in PageTerms, limit \in LimitTerms :
       ListEvents(status, sort[1], sort[2], page, limit)
  \/ \E id \in IdSet : GetEvent(id)
  \/ GetAll("events")

ListSpec == InitList /\ [][ListNext]_vars

-----------------------------------------------------------------------------
(* Handlers of concurrent requests, interleaved at their awaits *)

\* the caller of the interleaved requests
RaceUser == Str("u1")

\* while one updateEvent is suspended in Event.findOneAndUpdate, other
\* requests create and delete events
RaceNext ==
  \/ \E id \in IdSet, body \in UpdateBodies :
       UpdateEvent_Call(id, RaceUser, body, Undef)
  \/ UpdateEvent_Resume
  \/ \E id \in IdSet : DeleteEvent(id, RaceUser)
  \/ \E body \in CreateBodies : CreateEvent(body, RaceUser, Undef)

RaceSpec == InitList /\ [][RaceNext]_vars

-----------------------------------------------------------------------------
(* memoryDbUtils called with data that names the system fields *)

\* data mappings with an _id or a createdAt key next to ordinary fields
SystemData ==
  { [title |-> Str("Tech Talk"), _id |-> Str("9")],
    [title |-> Str("Music Festival"), createdAt |-> DateV(0)] }

SystemUpdates ==
  { [_id |-> Str("9")], [createdAt |-> DateV(0)], [status |-> Str("approved")] }

SystemNext ==
  \/ Tick
  \/ \E data \in SystemData : Create("events", data)
  \/ \E id \in IdSet \cup {Str("9")}, data \in SystemUpdates :
       Update("events", id, data)
  \/ \E id \in IdSet \cup {Str("9")} : FindById("events", id)

SystemSpec == InitDev /\ [][SystemNext]_vars

-----------------------------------------------------------------------------
(* Properties of the store, checked under Spec *)

NoDuplicateIds(collection) ==
  LET items == Items(memoryDb, collection)
  IN \A i, j \in 1..Len(items) :
       i # j => ~SameValue(Get(items[i], "_id"), Get(items[j], "_id"))

\* the step appends a record to the collection, as create does
Appends(collection) ==
  Len(Items(memoryDb', collection)) = Len(Items(memoryDb, collection)) + 1

\* the record the step has appended
Appended(collection) ==
  Items(memoryDb', collection)[Len(Items(memoryDb', collection))]

\* C1: no two records of a collection share an _id, and no create returns an
\* _id that create has assigned before in that collection, also when two
\* creates read the same clock value
C1_UniqueIdentifiers ==
  /\ [](\A c \in Collections : NoDuplicateIds(c))
  /\ [][\A c \in Collections :
          Appends(c) => Get(Appended(c), "_id") \notin issued[c]]_vars

\* C2: findById of the _id of a record that create returned and that has been
\* neither updated nor deleted returns exactly that record
C2_FindByIdReturnsCreated ==
  \A c \in Collections :
    \A i \in 1..Len(Items(memoryDb, c)) :
      fresh[c][i] =>
        findById(memoryDb, c, Get(Items(memoryDb, c)[i], "_id"))
          = Obj(Items(memoryDb, c)[i])

\* C3: update(collection, id, {f: v}) of an existing record followed by
\* findById(collection, id) yields a record with f = v, every other original
\* field unchanged, and updatedAt strictly greater than createdAt
C3_UpdateRoundTrip ==
  [][(last'.op = "update" /\ findById(memoryDb, last'.coll, last'.id).t = "object")
       => LET data == last'.arg.v
              old == findById(memoryDb, last'.coll, last'.id).v
              new == findById(memoryDb', last'.coll, last'.id)
          IN /\ new.t = "object"
             /\ \A f \in DOMAIN data : SameValue(Get(new.v, f), data[f])
             /\ \A k \in DOMAIN old \ (DOMAIN data \cup {"updatedAt"}) :
                  SameValue(Get(new.v, k), old[k])
             /\ new.v.updatedAt.v > new.v.createdAt.v]_vars

\* C4: the second of two delete(collection, id) calls in a row returns null
\* and removes no record
C4_SecondDeleteNotFound ==
  [][(/\ last.op = "delete" /\ last'.op = "delete"
      /\ last'.coll = last.coll /\ last'.id = last.id
      /\ now' = now)
       => (last'.ret = Null /\ memoryDb' = memoryDb)]_vars

-----------------------------------------------------------------------------
(* Properties of startup and of the handlers, checked under AppSpec *)

\* the record carries the documented fields of the sample event
IsSample(item, sample) ==
  \A k \in {"title", "description", "location", "price", "organizer", "status"} :
    SameValue(Get(item, k), sample[k])

\* the events collection holds the two sample events and nothing else
ExactlyTheSamples ==
  /\ Len(memoryDb["events"]) = 2
  /\ IsSample(memoryDb["events"][1], SampleEvent1(0))
  /\ IsSample(memoryDb["events"][2], SampleEvent2(0))

\* C5: when the connection to the real backend has failed, then once
\* connectDB has resolved usingMemoryDb is true, the events collection holds
\* exactly the two sample events, and the handlers serve from the in-memory
\* store
C5_FallbackOnConnectionFailure ==
  dbPc = [branch |-> "fallback", at |-> "resolved"]
    => (usingMemoryDb /\ ExactlyTheSamples /\ Serving)

\* an event with this _id is stored and its organizer is not o
OwnedByAnother(id, o) ==
  LET e == findById(memoryDb, "events", id)
  IN e.t = "object" /\ ~SameValue(Get(e.v, "organizer"), o)

\* C6: findOneAndUpdate and findOneAndDelete with the filter
\* {_id: id, organizer: o} answer not found and leave the events collection
\* unchanged when the stored event's organizer is not o
C6_OwnershipChecked ==
  [][(\/ UpdateEvent_Resume /\ OwnedByAnother(pend.id, pend.user)
      \/ \E id \in IdSet, user \in Users :
           DeleteEvent(id, user) /\ OwnedByAnother(id, user))
       => (last'.status = 404 /\ memoryDb' = memoryDb)]_vars

-----------------------------------------------------------------------------
(* Properties of the queries, checked under FindSpec *)

\* the characters of the texts that occur in records and search terms
Chars(s) ==
  CASE s = "Music Festival" ->
         <<"M", "u", "s", "i", "c", " ", "F", "e", "s", "t", "i", "v", "a", "l">>
    [] s = "Tech Conference 2025" ->
         <<"T", "e", "c", "h", " ", "C", "o", "n", "f", "e", "r", "e", "n", "c", "e", " ", "2", "0", "2", "5">>
    [] s = "Tech Talk" ->
         <<"T", "e", "c", "h", " ", "T", "a", "l", "k">>
    [] s = "Three-day music festival with top artists" ->
         <<"T", "h", "r", "e", "e", "-", "d", "a", "y", " ", "m", "u", "s", "i", "c", " ", "f", "e", "s", "t", "i", "v", "a", "l", " ", "w", "i", "t", "h", " ", "t", "o", "p", " ", "a", "r", "t", "i", "s", "t", "s">>
    [] s = "Annual technology conference with industry leaders" ->
         <<"A", "n", "n", "u", "a", "l", " ", "t", "e", "c", "h", "n", "o", "l", "o", "g", "y", " ", "c", "o", "n", "f", "e", "r", "e", "n", "c", "e", " ", "w", "i", "t", "h", " ", "i", "n", "d", "u", "s", "t", "r", "y", " ", "l", "e", "a", "d", "e", "r", "s">>
    [] s = "music" ->
         <<"m", "u", "s", "i", "c">>
    [] s = "TECH" ->
         <<"T", "E", "C", "H">>

\* String.prototype.toLowerCase on one character
Lower(c) ==
  CASE c = "A" -> "a" [] c = "B" -> "b" [] c = "C" -> "c" [] c = "D" -> "d"
    [] c = "E" -> "e" [] c = "F" -> "f" [] c = "G" -> "g" [] c = "H" -> "h"
    [] c = "I" -> "i" [] c = "J" -> "j" [] c = "K" -> "k" [] c = "L" -> "l"
    [] c = "M" -> "m" [] c = "N" -> "n" [] c = "O" -> "o" [] c = "P" -> "p"
    [] c = "Q" -> "q" [] c = "R" -> "r" [] c = "S" -> "s" [] c = "T" -> "t"
    [] c = "U" -> "u" [] c = "V" -> "v" [] c = "W" -> "w" [] c = "X" -> "x"
    [] c = "Y" -> "y" [] c = "Z" -> "z"
    [] OTHER -> c

\* text contains needle, ignoring case
ContainsIgnoreCase(text, needle) ==
  LET a == [i \in 1..Len(Chars(text)) |-> Lower(Chars(text)[i])]
      b == [i \in 1..Len(Chars(needle)) |-> Lower(Chars(needle)[i])]
  IN \E i \in 0..(Len(a) - Len(b)) : SubSeq(a, i + 1, i + Len(b)) = b

Literal(x) == x.t \in {"string", "number"}

\* every key of the filter map holds a literal
LiteralKeys(m, keys) == \A k \in keys : Literal(m[k])

\* a filter of literal values, with or without the or key
LiteralFilter(f) ==
  /\ f.t = "object"
  /\ LiteralKeys(f.v, DOMAIN f.v \ {"$or"})
  /\ "$or" \in DOMAIN f.v =>
       /\ f.v["$or"].t = "array"
       /\ \A n \in 1..Len(f.v["$or"].v) :
            LiteralKeys(f.v["$or"].v[n].v, DOMAIN f.v["$or"].v[n].v)

\* every key of the map equals the record's field
AllKeysEqual(item, m, keys) == \A k \in keys : SameValue(Get(item, k), m[k])

\* the record satisfies the literal filter: AND across its keys, ANY of the
\* sub-filters of its or key
SatisfiesLiteral(item, f) ==
  /\ AllKeysEqual(item, f.v, DOMAIN f.v \ {"$or"})
  /\ "$or" \in DOMAIN f.v =>
       \E n \in 1..Len(f.v["$or"].v) :
         AllKeysEqual(item, f.v["$or"].v[n].v, DOMAIN f.v["$or"].v[n].v)

NoFilter(f) == f.t \in {"undefined", "null"} \/ (f.t = "object" /\ DOMAIN f.v = {})

\* C10: for a literal-valued filter, find returns exactly the records, in
\* collection order, that equal the filter on every non-or key and satisfy at
\* least one sub-filter of the or key; an absent or empty filter returns every
\* record of the collection
C10_FindLiteralFilter ==
  last.op = "find" =>
    LET items == Items(memoryDb, last.coll)
    IN /\ NoFilter(last.arg) => last.ret = Arr(items)
       /\ (~NoFilter(last.arg) /\ LiteralFilter(last.arg)) =>
            last.ret = Arr(SelectSeq(items,
                             LAMBDA item : SatisfiesLiteral(item, last.arg)))

\* a find with both an or key and an equality key has returned some, but not
\* all, of the records
C10_Witness ==
  /\ last.op = "find"
  /\ ~NoFilter(last.arg) /\ LiteralFilter(last.arg)
  /\ "$or" \in DOMAIN last.arg.v /\ DOMAIN last.arg.v # {"$or"}
  /\ Len(last.ret.v) > 0
  /\ Len(last.ret.v) < Len(Items(memoryDb, last.coll))

\* the range shape { $gte?, $lte? }
IsRange(x) ==
  x.t = "object" /\ DOMAIN x.v # {} /\ DOMAIN x.v \subseteq {"$gte", "$lte"}

\* the case-insensitive substring shape { $regex, $options: 'i' }
IsSubstring(x) ==
  /\ x.t = "object" /\ DOMAIN x.v = {"$regex", "$options"}
  /\ x.v["$options"] = Str("i")

SupportedValue(x) == Literal(x) \/ IsRange(x) \/ IsSubstring(x)

SupportedKeys(m) == \A k \in DOMAIN m : SupportedValue(m[k])

\* every key of the filter has one of the supported shapes
SupportedFilter(f) ==
  /\ SupportedKeys([k \in DOMAIN f.v \ {"$or"} |-> f.v[k]])
  /\ "$or" \in DOMAIN f.v =>
       /\ f.v["$or"].t = "array"
       /\ \A n \in 1..Len(f.v["$or"].v) : SupportedKeys(f.v["$or"].v[n].v)

\* C7: a find whose filter has an unsupported shape, such as {$ne: x}, ends
\* in an error
C7_UnsupportedOperatorFails ==
  (last.op = "find" /\ last.arg.t = "object" /\ ~SupportedFilter(last.arg))
    => last.threw

\* the record's date lies within the bounds the range gives
InRange(item, range) ==
  LET d == Get(item, "date")
  IN /\ d.t \in {"date", "number"}
     /\ "$gte" \in DOMAIN range.v => range.v["$gte"].v <= d.v
     /\ "$lte" \in DOMAIN range.v => d.v <= range.v["$lte"].v

\* C8: a find with the range filter {date: {$gte: A, $lte: B}} returns
\* exactly the records with A <= date <= B, each bound enforced only when
\* present
C8_DateRange ==
  (/\ last.op \in {"find", "Event.find"}
   /\ last.arg.t = "object" /\ DOMAIN last.arg.v = {"date"}
   /\ IsRange(last.arg.v["date"]))
    => last.ret = Arr(SelectSeq(Items(memoryDb, last.coll),
                        LAMBDA item : InRange(item, last.arg.v["date"])))

\* the record has a text in the field and it contains the search term
FieldContains(item, field, term) ==
  /\ Get(item, field).t = "string"
  /\ ContainsIgnoreCase(Get(item, field).v, term.v)

\* the filter listEvents builds for a search term alone
IsSearchFilter(f) ==
  /\ f.t = "object" /\ DOMAIN f.v = {"$or"}
  /\ Len(f.v["$or"].v) = 2
  /\ DOMAIN f.v["$or"].v[1].v = {"title"}
  /\ IsSubstring(f.v["$or"].v[1].v["title"])

\* C9: the listing for a search term returns exactly the events whose title
\* or description contains the term, ignoring case
C9_SubstringSearch ==
  (last.op = "Event.find" /\ IsSearchFilter(last.arg)) =>
    LET term == last.arg.v["$or"].v[1].v["title"].v["$regex"]
    IN last.ret = Arr(SelectSeq(Items(memoryDb, "events"),
                        LAMBDA item : \/ FieldContains(item, "title", term)
                                      \/ FieldContains(item, "description", term)))

\* C11: every record the mock Event.find returns for a filter with the
\* equality keys status, category or organizer has those fields equal to the
\* filter's values
C11_EqualityKeysFilter ==
  last.op = "Event.find" =>
    \A i \in 1..Len(last.ret.v) :
      \A k \in DOMAIN last.arg.v \cap {"status", "category", "organizer"} :
        SameValue(Get(last.ret.v[i], k), last.arg.v[k])

\* C12: Event.countDocuments(filter) returns the length of the unpaginated
\* result of Event.find(filter)
C12_CountIsFindLength ==
  last.op = "Event.countDocuments" =>
    last.ret = Num(Len(EventFindResult(memoryDb, last.arg).v))

\* C15: connectDB never rejects, whatever the configuration and whichever
\* step of reaching the real backend fails
C15_ConnectNeverRejects == dbPc.at # "rejected"

\* C16: usingMemoryDb keeps the value decided at module load in every step
\* of connectDB and of the store operations
C16_FlagNeverChanges == [][usingMemoryDb' = usingMemoryDb]_vars

\* connectDB fell back to the in-memory store after a failed connection, the
\* store was used afterwards, and the flag still says real backend
C16_Witness ==
  /\ dbPc = [branch |-> "fallback", at |-> "resolved"]
  /\ ~usingMemoryDb
  /\ last.op = "delete" /\ last.ret # Null

-----------------------------------------------------------------------------
(* Properties of the listings, checked under ListSpec *)

Listed == last.op \in {"Event.find options", "listEvents"}

\* C13: a sorted listing is ordered by the sort field, ascending or
\* descending as asked, and records with equal sort keys come in their
\* insertion order, whatever listings were served before
C13_SortedAndStable ==
  (Listed /\ last.locals.sorted) =>
    LET all == last.locals.all
        f == last.locals.sortField
        places == last.locals.places
    IN \A i, j \in 1..Len(all) :
         i < j =>
           /\ IF last.locals.desc
              THEN ~Less(Get(all[i], f), Get(all[j], f))
              ELSE ~Less(Get(all[j], f), Get(all[i], f))
           /\ SameValue(Get(all[i], f), Get(all[j], f)) => places[i] < places[j]

\* the records of the page, without the organizer field listEvents rewrites
SameRecord(a, b) ==
  /\ DOMAIN a = DOMAIN b
  /\ \A k \in DOMAIN a \ {"organizer"} : a[k] = b[k]

\* C14: for non-negative skip and limit a paginated listing is exactly the
\* records at positions skip+1 .. skip+limit of the full result that exist:
\* none when skip is at or past the end, the remaining tail when skip+limit
\* passes it; the call does not fail
C14_PaginationClamped ==
  (Listed /\ last.locals.paged) =>
    LET all == last.locals.all
        skip == last.locals.skip
        limit == last.locals.limit
        page == IF last.op = "listEvents"
                THEN [i \in 1..Len(last.ret.v.events.v) |->
                        last.ret.v.events.v[i].v]
                ELSE last.ret.v
    IN /\ ~last.threw /\ last.status \in {0, 200}
       /\ Len(page) = Max(0, Min(limit, Len(all) - skip))
       /\ \A i \in 1..Len(page) : SameRecord(page[i], all[skip + i])

\* a page that starts inside the result and is cut at its end
C14_Witness ==
  /\ Listed /\ last.locals.paged
  /\ last.locals.skip >= 1
  /\ last.locals.skip < Len(last.locals.all)
  /\ last.locals.skip + last.locals.limit > Len(last.locals.all)
  /\ Len(last.ret.v) >= 1

\* C17: no find through the store or the mock, sorted and paginated or not,
\* and no listEvents changes what getAll returns for the events collection
C17_ReadsLeaveStore ==
  [][getAll(memoryDb', "events") = getAll(memoryDb, "events")]_vars

\* C20: on the in-memory path getEvent answers 200 with the event and its
\* registration count for an id held by the events collection, 404 for an
\* id it does not hold, and never 500
C20_GetEventOutcomes ==
  last.op = "getEvent" =>
    LET event == findById(memoryDb, "events", last.id)
    IN /\ last.status # 500
       /\ event # Null => /\ last.status = 200
                          /\ last.ret.v.event = event
       /\ event = Null => last.status = 404

-----------------------------------------------------------------------------
(* Properties of the system fields, checked under SystemSpec *)

\* C19: create stores the record under the identifier it generated whatever
\* the data holds, and update leaves _id and createdAt of the record as they
\* were while setting the other supplied fields
C19_SystemFieldsKept ==
  [][/\ (last'.op = "create" /\ Appends("events"))
          => /\ Appended("events") = last'.ret.v
             /\ Get(Appended("events"), "_id") = Str(toString(now))
     /\ (last'.op = "update" /\ findById(memoryDb, "events", last'.id) # Null)
          => LET index == FindIndex(Items(memoryDb, "events"), last'.id)
                 old == Items(memoryDb, "events")[index]
                 new == Items(memoryDb', "events")[index]
             IN /\ Get(new, "_id") = Get(old, "_id")
                /\ Get(new, "createdAt") = Get(old, "createdAt")
                /\ \A k \in DOMAIN last'.arg.v \ {"_id", "createdAt", "updatedAt"} :
                     Get(new, k) = last'.arg.v[k]]_vars

-----------------------------------------------------------------------------
(* Properties of the interleaved handlers, checked under RaceSpec *)

\* the first position of the collection holding a record with the id, or 0
FirstWithId(items, id) ==
  IF \E i \in 1..Len(items) : Get(items[i], "_id") = id
  THEN CHOOSE i \in 1..Len(items) :
         /\ Get(items[i], "_id") = id
         /\ \A j \in 1..(i - 1) : Get(items[j], "_id") # id
  ELSE 0

\* the step is one atomic find-and-update of the record with the id: the
\* first such record gets the data and a new updatedAt, nothing else changes,
\* and the answer carries the record; with no such record nothing changes
\* and the answer is not found
AtomicFindOneAndUpdate(id, data) ==
  LET items == Items(memoryDb, "events")
      after == Items(memoryDb', "events")
      i == FirstWithId(items, id)
  IN /\ Len(after) = Len(items)
     /\ \A j \in 1..Len(items) : j # i => after[j] = items[j]
     /\ IF i = 0
        THEN last'.status = 404
        ELSE /\ last'.status = 200
             /\ last'.ret.v.event.v = after[i]
             /\ \A k \in DOMAIN data : after[i][k] = data[k]
             /\ \A k \in DOMAIN items[i] \ (DOMAIN data \cup {"updatedAt"}) :
                  after[i][k] = items[i][k]
             /\ after[i].updatedAt.v \in {now, now'}

\* C18: the suspended findById-then-update acts as one atomic operation,
\* placed at its findById when that found nothing and at its update
\* otherwise, whatever creates and deletes ran in between; it never writes
\* to or brings back a record deleted meanwhile
C18_UpdateIsAtomic ==
  [][UpdateEvent_Resume =>
       IF Truthy(pend.item)
       THEN AtomicFindOneAndUpdate(pend.id, pend.update)
       ELSE memoryDb' = memoryDb /\ last'.status = 404]_vars

\* an updateEvent found its event, the event was deleted while the call was
\* suspended, and the call answered not found
C18_Witness ==
  /\ last.op = "updateEvent"
  /\ last.status = 404
  /\ Truthy(last.locals.item)

====
